---- MODULE Spec2Model ----
(***************************************************************************)
(* Discovery crawl engine of youtube-marketing-backend:                    *)
(*   - the API key pool        (app/workers/youtube/key_manager.py)        *)
(*   - the paginated search    (app/workers/youtube/youtube_search.py)     *)
(*   - the lead gate           (app/workers/youtube/main_worker.py)        *)
(*   - the orchestrator run    (app/workers/youtube/main_worker.py)        *)
(*   - the storage filter      (app/workers/youtube/deduplicator.py)       *)
(*   - the job expansion       (app/workers/youtube/search_matrix.py)      *)
(*   - the lookback window     (app/workers/youtube/main_worker.py)        *)
(*   - the fan-out of the jobs (app/workers/youtube/main_worker.py)        *)
(*   - the process, run by run (app/scheduler.py, main_worker.py)          *)
(* Each part has its own specification over the shared variables.          *)
(***************************************************************************)
EXTENDS Integers, Sequences, FiniteSets, TLC

VARIABLES
    km,        \* the APIKeyManager: _exhausted, _usage, _current_index, _reset_date
    today,     \* what date.today() returns
    obs,       \* the last pool call: what was called, with what, and what it returned
    nCalls,    \* number of pool calls made so far
    lock,      \* self._lock: 0 when free, else the thread holding it
    pc,        \* where each search-job thread stands
    loc,       \* each thread's locals: active_key, and the usage count it read
    acct,      \* bookkeeping since the last reset: keys returned, keys marked
    job,       \* one search_videos call: its locals and where it stands
    api,       \* the search API as the job meets it: what each key has served
    db,        \* the leads table: committed rows per video_id
    run,       \* the lead-gate pass of each orchestrator run, with its Session
    jobs,      \* the search jobs of one category sharing the pool: locals and last answer
    all_raw,   \* _process_category's all_raw: the merged results of the jobs
    orch,      \* one run() of the orchestrator: its loop, its Session, its summaries
    store,     \* storage: the youtube_videos rows and each category's last_fetched_at
    dd,        \* calls of dedupe_existing: the result set passed and what came back
    fn,        \* one call of get_search_jobs or _get_lookback: arguments and result
    fan,       \* the fan-out of one category: its futures, as they complete and are merged
    proc       \* the process over its orchestrator runs: the pool each run builds

poolVars == <<km, today, obs, nCalls>>
threadVars == <<lock, pc, loc, acct>>
searchVars == <<job, api>>
leadVars == <<db, run>>
jobsVars == <<jobs>>
orchVars == <<all_raw, orch, store, dd>>
lateVars == <<fn, fan, proc>>

vars == <<km, today, obs, nCalls, lock, pc, loc, acct, job, api, db, run,
          jobs, all_raw, orch, store, dd, fn, fan, proc>>

----------------------------------------------------------------------------
(* Bounds of the model *)

NumKeys == 3
MaxDay == 2
MaxCalls == 5
NumThreads == 2
MaxRetries == 1
MaxQuota == 2
MaxBatch == 2
NumCats == 2
MaxRequests == 4
MaxName == 2
MaxList == 2
TicksPerHour == 2
MaxGapHours == 52
MaxEnv == 2
MaxRuns == 2

----------------------------------------------------------------------------
(* The key pool: key_manager.py *)

KeyNames == <<"k1", "k2", "k3", "k4", "k5", "k6">>

\* self._keys, as _load_keys returns it: a non-empty list of distinct keys
keys == SubSeq(KeyNames, 1, NumKeys)

KeySet == {keys[i] : i \in 1..Len(keys)}

\* a string that is no key of the pool
ForeignKey == "kx"

\* Python's None as a return value of get_key
None == "None"

\* APIKeyManager.__init__ on day d
NewManager(d) ==
    [exhausted |-> {},
     usage |-> [k \in KeySet |-> 0],
     current_index |-> 0,
     reset_date |-> d]

\* a daily reset that leaves the exhausted set as it is
DailyResetDropsNothing(p, d) ==
    IF d # p.reset_date
    THEN [p EXCEPT !.usage = [k \in KeySet |-> 0], !.reset_date = d]
    ELSE p

\* _daily_reset_if_needed
DailyResetIfNeeded(p, d) ==
    IF d # p.reset_date
    THEN [p EXCEPT !.exhausted = {},
                   !.usage = [k \in KeySet |-> 0],
                   !.reset_date = d]
    ELSE p

\* available = [k for k in self._keys if k not in self._exhausted]
Available(p) == SelectSeq(keys, LAMBDA k : k \notin p.exhausted)

\* the loop of get_key stopping one key short of the whole pool
SelectOffsetShortRange(p) ==
    LET n == Len(keys)
        start == p.current_index % n
        hits == {o \in 0..(n - 2) : keys[((start + o) % n) + 1] \notin p.exhausted}
    IN  IF hits = {} THEN -1
        ELSE CHOOSE o \in hits : \A o2 \in hits : o <= o2

\* the loop of get_key: the first offset from start whose key is not exhausted
\* (-1 when the loop ends without returning)
SelectOffset(p) ==
    LET n == Len(keys)
        start == p.current_index % n
        hits == {o \in 0..(n - 1) : keys[((start + o) % n) + 1] \notin p.exhausted}
    IN  IF hits = {} THEN -1
        ELSE CHOOSE o \in hits : \A o2 \in hits : o <= o2

\* the index get_key settles on (0-based, as in the code), -1 for none
SelectIndex(p) ==
    IF Available(p) = <<>> \/ SelectOffset(p) = -1
    THEN -1
    ELSE ((p.current_index % Len(keys)) + SelectOffset(p)) % Len(keys)

\* get_key: the value returned, on day d
GetKeyResult(p, d) ==
    LET q == DailyResetIfNeeded(p, d)
        idx == SelectIndex(q)
    IN  IF idx = -1 THEN None ELSE keys[idx + 1]

\* get_key: the manager afterwards
GetKeyState(p, d) ==
    LET q == DailyResetIfNeeded(p, d)
        idx == SelectIndex(q)
    IN  IF idx = -1 THEN q
        ELSE [q EXCEPT !.current_index = idx,
                       !.usage[keys[idx + 1]] = @ + 1]

\* a mark_exhausted that forgets the key
MarkExhaustedForgets(p, k) == p

\* mark_exhausted: the manager afterwards (the method does not call
\* _daily_reset_if_needed)
MarkExhaustedState(p, k) == [p EXCEPT !.exhausted = @ \cup {k}]

\* status: the snapshot returned, on day d
StatusResult(p, d) ==
    LET q == DailyResetIfNeeded(p, d)
    IN  [total_keys |-> Len(keys),
         exhausted |-> Cardinality(q.exhausted),
         active |-> Len(keys) - Cardinality(q.exhausted),
         usage_per_key |-> q.usage,
         reset_date |-> q.reset_date]

\* status: the manager afterwards
StatusState(p, d) == DailyResetIfNeeded(p, d)

----------------------------------------------------------------------------
(* Sequential use of one pool: any sequence of calls, the date may advance *)

NoSnap == [total_keys |-> 0, exhausted |-> 0, active |-> 0,
           usage_per_key |-> [k \in KeySet |-> 0], reset_date |-> 0]

\* obs.op: the last call; obs.arg: the key it was given; obs.ret: what get_key
\* returned; obs.snap: what status returned; obs.stale: the call was made with
\* today # _reset_date; obs.before: _exhausted when it was made;
\* obs.indexBefore: _current_index when it was made; obs.prevGet: what the
\* get_key call before the last one returned; obs.markedToday: the keys given
\* to mark_exhausted since the date last changed
InitObs ==
    [op |-> "init", arg |-> None, ret |-> None, snap |-> NoSnap,
     stale |-> FALSE, before |-> {}, indexBefore |-> 0,
     lastGet |-> None, prevGet |-> None,
     markedToday |-> {}]

Threads == 1..NumThreads

\* no search-job thread has started
ThreadsIdle ==
    /\ lock = 0
    /\ pc = [t \in Threads |-> "idle"]
    /\ loc = [t \in Threads |-> [active_key |-> None, read |-> 0]]
    /\ acct = [returned |-> 0, marked |-> {}]

\* search_videos has not been called
NoJob ==
    [pc |-> "none", results |-> <<>>, seen_video_ids |-> {},
     next_page_token |-> 0, pages_fetched |-> 0, target_count |-> 0,
     retries |-> 0]

NoApi ==
    [mode |-> "none", quota |-> 0, served |-> [k \in KeySet |-> 0],
     next_id |-> 1, last_page |-> <<>>, ok |-> 0, last |-> "none",
     keys_used |-> {}, served_items |-> {}]

SearchIdle ==
    /\ job = NoJob
    /\ api = NoApi

\* the videos the runs may discover
Videos == {"v1", "v2"}

\* the two triggers of main_worker.run: the hourly job of scheduler.py and
\* POST /run/youtube of main.py
Runs == {"scheduled", "manual"}

NoRun ==
    [pc |-> "idle", batch |-> <<>>, i |-> 1, pending |-> <<>>,
     flushed |-> <<>>, made |-> <<>>, saw_none |-> {}]

\* no run has reached its lead gate, the leads table is empty
LeadsIdle ==
    /\ db = [leads |-> [v \in Videos |-> 0], seed |-> {},
             contact |-> [v \in Videos |-> "none"]]
    /\ run = [r \in Runs |-> NoRun]

\* no request of a search job has been answered yet
NoAnswer ==
    [status |-> "none", page |-> 0, key |-> None, reset_date |-> 0,
     marked |-> FALSE]

\* a search job that is not running.  req_page, req_reset: the page the
\* request in flight asks for and the pool's _reset_date when its key was
\* handed out; last: the last answer the job got, with the page and the key of
\* that request
NoSearchJob ==
    [pc |-> "none", pages_fetched |-> 0, active_key |-> None,
     req_page |-> 0, req_reset |-> 0, last |-> NoAnswer]

\* no category is running its search jobs
\* two of the jobs _process_category runs at once (it runs up to
\* SEARCH_JOB_THREADS of them)
SearchJobs == {"job_a", "job_b"}

JobsIdle == jobs = [t \in SearchJobs |-> NoSearchJob]

\* the categories of target_categories that are active, by descending priority
\* (get_active_categories)
Categories == 1..NumCats

\* the summary dict of _process_category: the category, the number of errors
\* recorded, and what status()["active"] gave run() after the category
NoSummary == [category |-> 0, errors |-> 0, remaining |-> 0]

\* run() has not been called.  session: the state of the run's Session;
\* expired: the Session has expired the objects of the categories still to
\* be processed;
\* stages: the steps of the current category that have completed
NoOrch ==
    [pc |-> "none", i |-> 1, session |-> "none", expired |-> FALSE,
     stages |-> {}, summary |-> NoSummary, all_summaries |-> <<>>,
     video_ids |-> {}]

\* dedupe_existing has not been called
NoDedupe == [results |-> <<>>, calls |-> <<>>]

\* no orchestrator run, nothing stored, dedupe_existing not called
OrchIdle ==
    /\ all_raw = <<>>
    /\ orch = NoOrch
    /\ store = [videos |-> {}, last_fetched_at |-> [c \in Categories |-> 0]]
    /\ dd = NoDedupe

\* neither get_search_jobs nor _get_lookback has been called.  dims: the
\* lengths of the three lists of the matrix entry under test; fetched, last:
\* cat.last_fetched_at (fetched is FALSE for None); done: the call has returned
NoCall ==
    [op |-> "none", name |-> <<>>, dims |-> <<0, 0, 0>>, now |-> 0,
     fetched |-> FALSE, last |-> 0, done |-> FALSE, jobs |-> <<>>, cutoff |-> 0]

\* no category has submitted its search jobs.  outcome: how search_videos
\* ended in each job; results: what it had to return; batch: what the future
\* holds; completed: the futures in the order as_completed yields them;
\* merged: how many of them the loop has taken; errors: len(summary["errors"])
NoFan ==
    [pc |-> "none",
     outcome |-> [t \in SearchJobs |-> "none"],
     results |-> [t \in SearchJobs |-> <<>>],
     batch |-> [t \in SearchJobs |-> <<>>],
     completed |-> <<>>, merged |-> 0, errors |-> 0]

\* the process has not started an orchestrator run
NoProc == [pc |-> "none"]

\* no pure call under test, no fan-out, no process
LateIdle ==
    /\ fn = NoCall
    /\ fan = NoFan
    /\ proc = NoProc

InitPool ==
    /\ today = 0
    /\ km = NewManager(0)
    /\ obs = InitObs
    /\ LateIdle
    /\ nCalls = 0
    /\ ThreadsIdle
    /\ SearchIdle
    /\ LeadsIdle
    /\ JobsIdle
    /\ OrchIdle

GetKey ==
    /\ nCalls < MaxCalls
    /\ km' = GetKeyState(km, today)
    /\ obs' = [obs EXCEPT !.op = "get_key", !.arg = None,
                          !.ret = GetKeyResult(km, today),
                          !.stale = (today # km.reset_date),
                          !.before = km.exhausted,
                          !.indexBefore = km.current_index,
                          !.prevGet = obs.lastGet,
                          !.lastGet = GetKeyResult(km, today)]
    /\ nCalls' = nCalls + 1
    /\ UNCHANGED <<today, threadVars, searchVars, leadVars, jobsVars, orchVars, lateVars>>

MarkExhausted ==
    /\ nCalls < MaxCalls
    /\ \E k \in KeySet \cup {ForeignKey} :
        /\ km' = MarkExhaustedState(km, k)
        /\ obs' = [obs EXCEPT !.op = "mark_exhausted", !.arg = k,
                              !.stale = (today # km.reset_date),
                              !.before = km.exhausted,
                              !.indexBefore = km.current_index,
                              !.markedToday = @ \cup {k}]
    /\ nCalls' = nCalls + 1
    /\ UNCHANGED <<today, threadVars, searchVars, leadVars, jobsVars, orchVars, lateVars>>

Status ==
    /\ nCalls < MaxCalls
    /\ km' = StatusState(km, today)
    /\ obs' = [obs EXCEPT !.op = "status", !.arg = None,
                          !.snap = StatusResult(km, today),
                          !.stale = (today # km.reset_date),
                          !.before = km.exhausted,
                          !.indexBefore = km.current_index]
    /\ nCalls' = nCalls + 1
    /\ UNCHANGED <<today, threadVars, searchVars, leadVars, jobsVars, orchVars, lateVars>>

\* midnight passes
NextDay ==
    /\ today < MaxDay
    /\ today' = today + 1
    /\ obs' = [obs EXCEPT !.op = "midnight", !.markedToday = {}]
    /\ UNCHANGED <<km, nCalls, threadVars, searchVars, leadVars, jobsVars, orchVars, lateVars>>

NextPool == GetKey \/ MarkExhausted \/ Status \/ NextDay

SpecPool == InitPool /\ [][NextPool]_vars

----------------------------------------------------------------------------
(* Claims about one pool used sequentially (SpecPool) *)

\* the first non-exhausted key strictly after key k in pool order, wrapping
NextKeyAfter(k, exh) ==
    LET n == Len(keys)
        pos == CHOOSE i \in 1..n : keys[i] = k
        hits == {o \in 1..n : keys[((pos - 1 + o) % n) + 1] \notin exh}
    IN  IF hits = {} THEN None
        ELSE keys[((pos - 1 + (CHOOSE o \in hits : \A o2 \in hits : o <= o2)) % n) + 1]

\* C1: within one day, get_key never returns a key that was passed to
\* mark_exhausted earlier that same day.
C1_NoKeyAfterExhausted ==
    (obs.op = "get_key" /\ obs.ret # None) => obs.ret \notin obs.markedToday

\* C5: every get_key call returns the next non-exhausted key after the key the
\* previous get_key call returned (round-robin, the index advancing on every
\* call).
C5_RoundRobin ==
    (obs.op = "get_key" /\ ~obs.stale /\ obs.prevGet # None /\ obs.ret # None)
        => obs.ret = NextKeyAfter(obs.prevGet, km.exhausted)

\* C6: the first get_key or status call after the date changed finds every key
\* acquirable again (get_key returns the key at the current index even if it
\* was exhausted the day before) and all usage counts reset to zero (status
\* reports zero for every key; after get_key only the returned key counts 1).
C6_ResetRestoresKeys ==
    /\ (obs.op = "get_key" /\ obs.stale) =>
          /\ km.exhausted = {}
          /\ obs.ret = keys[(obs.indexBefore % Len(keys)) + 1]
          /\ km.usage = [k \in KeySet |-> IF k = obs.ret THEN 1 ELSE 0]
    /\ (obs.op = "status" /\ obs.stale) =>
          /\ km.exhausted = {}
          /\ obs.snap.exhausted = 0
          /\ \A k \in KeySet : obs.snap.usage_per_key[k] = 0

\* a get_key call on a new day returns a key that was exhausted the day before
C6_Witness ==
    /\ obs.op = "get_key"
    /\ obs.stale
    /\ obs.ret \in obs.before

\* C7: every public call applies the daily reset before its own effect; a
\* mark_exhausted that is the first call of a new day leaves exactly that key
\* exhausted and the reset date equal to today.
C7_ResetBeforeEveryCall ==
    obs.op \in {"get_key", "mark_exhausted", "status"} =>
        /\ km.reset_date = today
        /\ (obs.stale /\ obs.op = "mark_exhausted") => km.exhausted = {obs.arg}
        /\ (obs.stale /\ obs.op # "mark_exhausted") => km.exhausted = {}

----------------------------------------------------------------------------
(* Concurrent use of one pool: the search-job threads of _process_category,
   each looping over get_key / HTTP call / mark_exhausted on a 403.  The
   methods are split at every read and write of the shared state. *)

\* a method body entered without waiting for the lock
LockIgnored(t) == TRUE

\* `with self._lock:` can be entered
LockFree(t) == lock = 0

RECURSIVE SumOver(_, _)
SumOver(f, S) ==
    IF S = {} THEN 0
    ELSE LET k == CHOOSE x \in S : TRUE
         IN  f[k] + SumOver(f, S \ {k})

InitThreads ==
    /\ today = 0
    /\ km = NewManager(0)
    /\ obs = InitObs
    /\ LateIdle
    /\ nCalls = 0
    /\ ThreadsIdle
    /\ SearchIdle
    /\ LeadsIdle
    /\ JobsIdle
    /\ OrchIdle

\* search_videos calls key_manager.get_key(): the lock is taken
CallGetKey(t) ==
    /\ pc[t] = "idle"
    /\ nCalls < MaxCalls
    /\ LockFree(t)
    /\ lock' = t
    /\ pc' = [pc EXCEPT ![t] = "gk_reset"]
    /\ nCalls' = nCalls + 1
    /\ UNCHANGED <<km, today, obs, loc, acct, searchVars, leadVars, jobsVars, orchVars,
                 lateVars>>

\* get_key: self._daily_reset_if_needed()
GkReset(t) ==
    /\ pc[t] = "gk_reset"
    /\ km' = DailyResetIfNeeded(km, today)
    /\ acct' = IF today # km.reset_date
               THEN [returned |-> 0, marked |-> {}]
               ELSE acct
    /\ pc' = [pc EXCEPT ![t] = "gk_select"]
    /\ UNCHANGED <<today, obs, nCalls, lock, loc, searchVars, leadVars, jobsVars, orchVars,
                 lateVars>>

\* get_key: the availability test and the loop; with a key found the index is
\* stored and the key's usage count read; with none, None is returned and the
\* lock released
GkSelect(t) ==
    /\ pc[t] = "gk_select"
    /\ IF SelectIndex(km) = -1
       THEN /\ loc' = [loc EXCEPT ![t].active_key = None]
            /\ pc' = [pc EXCEPT ![t] = "idle"]
            /\ lock' = 0
            /\ UNCHANGED km
       ELSE /\ km' = [km EXCEPT !.current_index = SelectIndex(km)]
            /\ loc' = [loc EXCEPT ![t].active_key = keys[SelectIndex(km) + 1],
                                  ![t].read = km.usage[keys[SelectIndex(km) + 1]]]
            /\ pc' = [pc EXCEPT ![t] = "gk_write"]
            /\ UNCHANGED lock
    /\ UNCHANGED <<today, obs, nCalls, acct, searchVars, leadVars, jobsVars, orchVars,
                 lateVars>>

\* get_key: self._usage[key] = <count read> + 1; return key; the lock is
\* released
GkWrite(t) ==
    /\ pc[t] = "gk_write"
    /\ km' = [km EXCEPT !.usage[loc[t].active_key] = loc[t].read + 1]
    /\ acct' = [acct EXCEPT !.returned = @ + 1]
    /\ lock' = 0
    /\ pc' = [pc EXCEPT ![t] = "have_key"]
    /\ UNCHANGED <<today, obs, nCalls, loc, searchVars, leadVars, jobsVars, orchVars,
                 lateVars>>

\* the HTTP call with active_key did not answer 403: back to the loop's head
PageDone(t) ==
    /\ pc[t] = "have_key"
    /\ pc' = [pc EXCEPT ![t] = "idle"]
    /\ UNCHANGED <<poolVars, lock, loc, acct, searchVars, leadVars, jobsVars, orchVars,
                 lateVars>>

\* 403: search_videos calls key_manager.mark_exhausted(active_key): the lock
\* is taken
CallMarkExhausted(t) ==
    /\ pc[t] = "have_key"
    /\ LockFree(t)
    /\ lock' = t
    /\ pc' = [pc EXCEPT ![t] = "me_add"]
    /\ UNCHANGED <<poolVars, loc, acct, searchVars, leadVars, jobsVars, orchVars, lateVars>>

\* mark_exhausted: self._exhausted.add(key); the lock is released
MeAdd(t) ==
    /\ pc[t] = "me_add"
    /\ km' = MarkExhaustedState(km, loc[t].active_key)
    /\ acct' = [acct EXCEPT !.marked = @ \cup {loc[t].active_key}]
    /\ lock' = 0
    /\ pc' = [pc EXCEPT ![t] = "idle"]
    /\ UNCHANGED <<today, obs, nCalls, loc, searchVars, leadVars, jobsVars, orchVars,
                 lateVars>>

\* midnight passes while the jobs run
Midnight ==
    /\ today < MaxDay
    /\ today' = today + 1
    /\ UNCHANGED <<km, obs, nCalls, threadVars, searchVars, leadVars, jobsVars, orchVars,
                 lateVars>>

NextThreads ==
    \/ \E t \in Threads : CallGetKey(t)
    \/ \E t \in Threads : GkReset(t)
    \/ \E t \in Threads : GkSelect(t)
    \/ \E t \in Threads : GkWrite(t)
    \/ \E t \in Threads : PageDone(t)
    \/ \E t \in Threads : CallMarkExhausted(t)
    \/ \E t \in Threads : MeAdd(t)
    \/ Midnight

SpecThreads == InitThreads /\ [][NextThreads]_vars

\* the threads that are inside a pool method
Inside == {t \in Threads : pc[t] \in {"gk_reset", "gk_select", "gk_write", "me_add"}}

\* C9: only the lock holder is inside a pool method, and whenever no call is
\* in progress no update has been lost: the usage counts sum to the number of
\* get_key calls that returned a key since the last reset, and every key passed
\* to mark_exhausted since then is in the exhausted set.
C9_NoLostUpdate ==
    /\ Inside \subseteq {lock}
    /\ Inside = {} =>
          /\ SumOver(km.usage, KeySet) = acct.returned
          /\ acct.marked \subseteq km.exhausted

\* two threads hold keys at once, no call is in progress, and keys have been
\* both returned and marked since the last reset
C9_Witness ==
    /\ Inside = {}
    /\ \A t \in Threads : t <= 2 => pc[t] = "have_key"
    /\ acct.returned >= 3
    /\ acct.marked # {}

----------------------------------------------------------------------------
(* One search job: search_videos of youtube_search.py, run alone on a fresh
   pool.  Every action is one pass of the while loop: the get_key call, the
   HTTP answer and what the code does with it. *)

MAX_PAGES_PER_JOB == 10

\* "maxResults": 50 -- the most items one page carries
PageSize == 50

\* RESULTS_PER_JOB of main_worker.py, the target_count _run_search_job passes
RESULTS_PER_JOB == 250

\* target_count values tried: none wanted, one page's worth not filled, the
\* orchestrator's value, and more than the hard cap
TargetChoices == {0, 1, RESULTS_PER_JOB, 2 * MAX_PAGES_PER_JOB * PageSize}

Min(a, b) == IF a <= b THEN a ELSE b

\* effective_target = min(target_count, MAX_PAGES_PER_JOB * 50)
EffectiveTarget(target_count) == Min(target_count, MAX_PAGES_PER_JOB * 50)

\* a while condition without the page cap
LoopContinuesNoPageCap(j) ==
    Len(j.results) < EffectiveTarget(j.target_count)

\* while len(results) < effective_target and pages_fetched < MAX_PAGES_PER_JOB
LoopContinues(j) ==
    /\ Len(j.results) < EffectiveTarget(j.target_count)
    /\ j.pages_fetched < MAX_PAGES_PER_JOB

\* the for loop over data["items"]: an item is taken when it has a videoId (a
\* video id of 0 stands for an item without videoId or channelId) that is not
\* in seen_video_ids
RECURSIVE Collect(_, _, _)
Collect(items, results, seen) ==
    IF items = <<>> THEN [results |-> results, seen |-> seen]
    ELSE LET vid == Head(items)
         IN  IF vid # 0 /\ vid \notin seen
             THEN Collect(Tail(items), Append(results, vid), seen \cup {vid})
             ELSE Collect(Tail(items), results, seen)

\* a 403 treated like any other bad status: break
AfterForbiddenAborts == "done"

\* after a 403: `continue`, the same page is tried again
AfterForbidden == "loop"

\* the item lists a 200 answer may carry: a full page of new videos, a short
\* last page with a single new video or with the same new video twice, or a
\* page with nothing new (the previous page again, or an item without a
\* videoId)
PageItems(kind) ==
    CASE kind = "full" -> [i \in 1..PageSize |-> api.next_id + i - 1]
      [] kind = "single" -> <<api.next_id>>
      [] kind = "twice" -> <<api.next_id, api.next_id>>
      [] OTHER -> IF api.last_page = <<>> THEN <<0>> ELSE api.last_page

IdsOf(items) == {items[i] : i \in 1..Len(items)} \ {0}

InitSearch ==
    /\ today = 0
    /\ km = NewManager(0)
    /\ obs = InitObs
    /\ LateIdle
    /\ nCalls = 0
    /\ ThreadsIdle
    /\ LeadsIdle
    /\ JobsIdle
    /\ OrchIdle
    /\ \E t \in TargetChoices :
          job = [NoJob EXCEPT !.pc = "loop", !.target_count = t]
    /\ \/ api = [NoApi EXCEPT !.mode = "any"]
       \/ \E q \in 1..MaxQuota : api = [NoApi EXCEPT !.mode = "quota", !.quota = q]

\* a page handler that goes on whether or not there is a nextPageToken
AfterPageIgnoresToken(token) == "loop"

\* after a parsed page: `if not next_page_token: break`
AfterPage(token) == IF token THEN "loop" ELSE "done"

\* the key the pass gets from the pool
ActiveKey == GetKeyResult(km, today)

\* the loop condition fails: return results
SearchReturn ==
    /\ job.pc = "loop"
    /\ ~LoopContinues(job)
    /\ job' = [job EXCEPT !.pc = "done"]
    /\ UNCHANGED <<poolVars, threadVars, api, leadVars, jobsVars, orchVars, lateVars>>

\* get_key returns None: break
SearchNoKey ==
    /\ job.pc = "loop"
    /\ LoopContinues(job)
    /\ ActiveKey = None
    /\ km' = GetKeyState(km, today)
    /\ job' = [job EXCEPT !.pc = "done"]
    /\ UNCHANGED <<today, obs, nCalls, threadVars, api, leadVars, jobsVars, orchVars,
                 lateVars>>

\* requests.exceptions.Timeout: sleep, continue
SearchTimeout ==
    /\ job.pc = "loop"
    /\ LoopContinues(job)
    /\ ActiveKey # None
    /\ api.mode = "any"
    /\ job.retries < MaxRetries
    /\ km' = GetKeyState(km, today)
    /\ job' = [job EXCEPT !.retries = @ + 1]
    /\ api' = [api EXCEPT !.keys_used = @ \cup {ActiveKey}, !.last = "timeout"]
    /\ UNCHANGED <<today, obs, nCalls, threadVars, leadVars, jobsVars, orchVars, lateVars>>

\* any other requests.exceptions.RequestException: break
SearchNetworkError ==
    /\ job.pc = "loop"
    /\ LoopContinues(job)
    /\ ActiveKey # None
    /\ api.mode = "any"
    /\ km' = GetKeyState(km, today)
    /\ job' = [job EXCEPT !.pc = "done"]
    /\ api' = [api EXCEPT !.keys_used = @ \cup {ActiveKey}, !.last = "network error"]
    /\ UNCHANGED <<today, obs, nCalls, threadVars, leadVars, jobsVars, orchVars, lateVars>>

\* status 403: mark_exhausted(active_key), continue without advancing the page
SearchForbidden ==
    /\ job.pc = "loop"
    /\ LoopContinues(job)
    /\ ActiveKey # None
    /\ \/ api.mode = "any" /\ job.retries < MaxRetries
       \/ api.mode = "quota" /\ api.served[ActiveKey] >= api.quota
    /\ km' = MarkExhaustedState(GetKeyState(km, today), ActiveKey)
    /\ job' = [job EXCEPT !.pc = AfterForbidden,
                          !.retries = IF api.mode = "any" THEN @ + 1 ELSE @]
    /\ api' = [api EXCEPT !.keys_used = @ \cup {ActiveKey}, !.last = "403"]
    /\ UNCHANGED <<today, obs, nCalls, threadVars, leadVars, jobsVars, orchVars, lateVars>>

\* status 429: sleep 15 s, continue
SearchRateLimited ==
    /\ job.pc = "loop"
    /\ LoopContinues(job)
    /\ ActiveKey # None
    /\ api.mode = "any"
    /\ job.retries < MaxRetries
    /\ km' = GetKeyState(km, today)
    /\ job' = [job EXCEPT !.retries = @ + 1]
    /\ api' = [api EXCEPT !.keys_used = @ \cup {ActiveKey}, !.last = "429"]
    /\ UNCHANGED <<today, obs, nCalls, threadVars, leadVars, jobsVars, orchVars, lateVars>>

\* any other status than 200: break
SearchOtherStatus ==
    /\ job.pc = "loop"
    /\ LoopContinues(job)
    /\ ActiveKey # None
    /\ api.mode = "any"
    /\ km' = GetKeyState(km, today)
    /\ job' = [job EXCEPT !.pc = "done"]
    /\ api' = [api EXCEPT !.keys_used = @ \cup {ActiveKey}, !.last = "500"]
    /\ UNCHANGED <<today, obs, nCalls, threadVars, leadVars, jobsVars, orchVars, lateVars>>

\* status 200 with a body resp.json() cannot parse: the exception leaves
\* search_videos
SearchMalformed ==
    /\ job.pc = "loop"
    /\ LoopContinues(job)
    /\ ActiveKey # None
    /\ api.mode = "any"
    /\ km' = GetKeyState(km, today)
    /\ job' = [job EXCEPT !.pc = "raised"]
    /\ api' = [api EXCEPT !.keys_used = @ \cup {ActiveKey}, !.last = "200 malformed", !.ok = @ + 1]
    /\ UNCHANGED <<today, obs, nCalls, threadVars, leadVars, jobsVars, orchVars, lateVars>>

\* status 200 with no items: break
SearchEmptyPage ==
    /\ job.pc = "loop"
    /\ LoopContinues(job)
    /\ ActiveKey # None
    /\ api.mode = "any"
    /\ km' = GetKeyState(km, today)
    /\ job' = [job EXCEPT !.pc = "done"]
    /\ api' = [api EXCEPT !.keys_used = @ \cup {ActiveKey}, !.last = "200 empty", !.ok = @ + 1,
                          !.served[ActiveKey] = @ + 1]
    /\ UNCHANGED <<today, obs, nCalls, threadVars, leadVars, jobsVars, orchVars, lateVars>>

\* status 200 with items: collect the new ones, count the page, take the
\* nextPageToken; break when there is none.  A key under its quota serves a
\* full page with a token.
SearchPage ==
    /\ job.pc = "loop"
    /\ LoopContinues(job)
    /\ ActiveKey # None
    /\ \/ api.mode = "any"
       \/ api.mode = "quota" /\ api.served[ActiveKey] < api.quota
    /\ \E kind \in {"full", "single", "twice", "stale"}, token \in BOOLEAN :
        /\ api.mode = "quota" => (kind = "full" /\ token)
        /\ kind \in {"single", "twice"} => ~token
        /\ LET items == PageItems(kind)
               got == Collect(items, job.results, job.seen_video_ids)
           IN  /\ job' = [job EXCEPT
                            !.results = got.results,
                            !.seen_video_ids = got.seen,
                            !.pages_fetched = @ + 1,
                            !.next_page_token = IF token THEN api.ok + 1 ELSE 0,
                            !.pc = AfterPage(token)]
               /\ api' = [api EXCEPT
                            !.keys_used = @ \cup {ActiveKey},
                            !.last = "200",
                            !.ok = @ + 1,
                            !.served[ActiveKey] = @ + 1,
                            !.served_items = @ \cup IdsOf(items),
                            !.last_page = items,
                            !.next_id = IF kind = "stale" THEN @
                                        ELSE @ + Cardinality(IdsOf(items))]
    /\ km' = GetKeyState(km, today)
    /\ UNCHANGED <<today, obs, nCalls, threadVars, leadVars, jobsVars, orchVars, lateVars>>

\* _run_search_job hands the job's list to _process_category, which extends
\* all_raw with it; when search_videos raised, the except clause of
\* _run_search_job returns [] instead
RunSearchJobReturn ==
    /\ job.pc \in {"done", "raised"}
    /\ all_raw' = all_raw \o (IF job.pc = "done" THEN job.results ELSE <<>>)
    /\ job' = [job EXCEPT !.pc = "merged"]
    /\ UNCHANGED <<poolVars, threadVars, api, leadVars, jobsVars, orch, store, dd, lateVars>>

NextSearch ==
    \/ SearchReturn
    \/ SearchNoKey
    \/ SearchTimeout
    \/ SearchNetworkError
    \/ SearchForbidden
    \/ SearchRateLimited
    \/ SearchOtherStatus
    \/ SearchMalformed
    \/ SearchEmptyPage
    \/ SearchPage
    \/ RunSearchJobReturn

SpecSearch == InitSearch /\ [][NextSearch]_vars

\* C4: whatever target_count and whatever the API answers (pages of at most 50
\* items), a job holds at most MAX_PAGES_PER_JOB * 50 = 500 results and has
\* fetched at most MAX_PAGES_PER_JOB = 10 pages.
C4_JobCaps ==
    /\ Len(job.results) <= MAX_PAGES_PER_JOB * PageSize
    /\ job.pages_fetched <= MAX_PAGES_PER_JOB
    /\ api.ok <= MAX_PAGES_PER_JOB

\* a job asked for more than the cap returns with 10 pages and 500 results
C4_Witness ==
    /\ job.pc = "done"
    /\ job.target_count > MAX_PAGES_PER_JOB * PageSize
    /\ job.pages_fetched = MAX_PAGES_PER_JOB
    /\ Len(job.results) = MAX_PAGES_PER_JOB * PageSize

\* the scenario of C10: every key serves 2 calls and answers 403 from its 3rd
\* call on, nothing else goes wrong, and the job needs 5 full pages
ScenarioA ==
    /\ api.mode = "quota"
    /\ api.quota = 2
    /\ job.target_count = 5 * PageSize
    /\ Len(keys) >= 3

\* C10: in that scenario the job returns without raising, having used 3 keys
\* (the whole pool when the pool has 3 keys), and returns only items of pages
\* that were served: the 5 pages it needed.
C10_RotatesThroughPool ==
    ScenarioA =>
        /\ job.pc # "raised"
        /\ IdsOf(job.results) \subseteq api.served_items
        /\ job.pc = "done" =>
              /\ Cardinality(api.keys_used) = 3
              /\ Len(keys) = 3 => api.keys_used = KeySet
              /\ job.pages_fetched = 5
              /\ Len(job.results) = Cardinality(api.served_items)

\* the job of the scenario has returned, having met a 403 on two keys
C10_Witness ==
    /\ ScenarioA
    /\ job.pc = "done"
    /\ Cardinality(km.exhausted) = 2
    /\ job.results # <<>>

----------------------------------------------------------------------------
(* The lead gate: step 9 of _process_category in main_worker.py, run by two
   orchestrator runs that may overlap, each on its own Session against the
   same leads table (PostgreSQL, READ COMMITTED). *)

\* a leads table without the unique index
VideoIdNotUnique == FALSE

\* video_id = Column(String, unique=True)
VideoIdUnique == TRUE

\* SessionLocal of app/core/database.py: a query first flushes the Leads added
\* so far, so the existence check sees the Leads of the same pass
Autoflush == TRUE

\* the payload["videos"] lists a pass may get
Batches == UNION {[1..n -> Videos] : n \in 0..MaxBatch}

Count(seq, v) == Cardinality({i \in 1..Len(seq) : seq[i] = v})

OtherRun(r) == CHOOSE o \in Runs : o # r

\* a gate without the existence check
LeadExistsNever(r, v) == FALSE

\* exists = db.query(Lead).filter(Lead.video_id == v).first(): the committed
\* rows and the rows of the run's own transaction
LeadExists(r, v) == db.leads[v] > 0 \/ Count(run[r].flushed, v) > 0

\* the INSERT of a Lead for v breaks the unique index on video_id
UniqueViolation(r, v) ==
    VideoIdUnique /\ (db.leads[v] > 0 \/ Count(run[r].flushed, v) > 0)

\* the INSERT waits for the other run's transaction, which holds an
\* uncommitted row for v
InsertWaits(r, v) ==
    VideoIdUnique /\ Count(run[OtherRun(r)].flushed, v) > 0

\* the Session has Leads to INSERT now: at db.commit(), or before a query
NeedsFlush(r) ==
    /\ run[r].pc = "gate"
    /\ run[r].pending # <<>>
    /\ run[r].i > Len(run[r].batch) \/ Autoflush

\* what the payload holds of a video's channel: "none" when the channel is not
\* in payload["channels"], else which of primary_email and primary_instagram
\* the transform has set
ChannelData == {"none", "no_contact", "email", "instagram", "both"}

\* email = channel_data.primary_email
PrimaryEmail(c) == c \in {"email", "both"}

\* ig_url = channel_data.primary_instagram
PrimaryInstagram(c) == c \in {"instagram", "both"}

\* a gate that takes the email for the only contact point
NoContactPointEmailOnly(c) == c = "none" \/ ~PrimaryEmail(c)

\* `if not channel_data: continue` and `if not email and not ig_url: continue`
NoContactPoint(c) == c = "none" \/ (~PrimaryEmail(c) /\ ~PrimaryInstagram(c))

InitLeads ==
    /\ today = 0
    /\ km = NewManager(0)
    /\ obs = InitObs
    /\ LateIdle
    /\ nCalls = 0
    /\ ThreadsIdle
    /\ SearchIdle
    /\ JobsIdle
    /\ OrchIdle
    /\ run = [r \in Runs |-> NoRun]
    /\ \E seed \in SUBSET Videos, c \in [Videos -> ChannelData] :
          db = [leads |-> [v \in Videos |-> IF v \in seed THEN 1 ELSE 0],
                seed |-> seed,
                contact |-> c]

\* a run reaches step 9 with its transformed payload
LeadGateStart(r) ==
    /\ run[r].pc = "idle"
    /\ \E b \in Batches : run' = [run EXCEPT ![r].pc = "gate", ![r].batch = b]
    /\ UNCHANGED <<poolVars, threadVars, searchVars, db, jobsVars, orchVars, lateVars>>

\* one pass of the for loop: the existence check, the channel lookup, the
\* contact test, db.add(lead)
LeadGate(r) ==
    /\ run[r].pc = "gate"
    /\ run[r].i <= Len(run[r].batch)
    /\ ~NeedsFlush(r)
    /\ LET v == run[r].batch[run[r].i]
       IN  IF LeadExists(r, v)
           THEN run' = [run EXCEPT ![r].i = @ + 1]
           ELSE IF NoContactPoint(db.contact[v])
           THEN run' = [run EXCEPT ![r].i = @ + 1,
                                   ![r].saw_none = @ \cup {v}]
           ELSE run' = [run EXCEPT ![r].i = @ + 1,
                                   ![r].saw_none = @ \cup {v},
                                   ![r].pending = Append(@, v),
                                   ![r].made = Append(@, v)]
    /\ UNCHANGED <<poolVars, threadVars, searchVars, db, jobsVars, orchVars, lateVars>>

\* the Session INSERTs an added Lead
LeadInsert(r) ==
    /\ NeedsFlush(r)
    /\ ~UniqueViolation(r, Head(run[r].pending))
    /\ ~InsertWaits(r, Head(run[r].pending))
    /\ run' = [run EXCEPT ![r].flushed = Append(@, Head(run[r].pending)),
                          ![r].pending = Tail(@)]
    /\ UNCHANGED <<poolVars, threadVars, searchVars, db, jobsVars, orchVars, lateVars>>

\* the INSERT raises IntegrityError: the transaction is rolled back and the
\* exception lands in the except clause of _process_category
LeadIntegrityError(r) ==
    /\ NeedsFlush(r)
    /\ UniqueViolation(r, Head(run[r].pending))
    /\ run' = [run EXCEPT ![r].pc = "failed", ![r].flushed = <<>>,
                          ![r].pending = <<>>]
    /\ UNCHANGED <<poolVars, threadVars, searchVars, db, jobsVars, orchVars, lateVars>>

\* both runs wait for each other's row: the database ends one of them
LeadDeadlock(r) ==
    /\ NeedsFlush(r)
    /\ NeedsFlush(OtherRun(r))
    /\ InsertWaits(r, Head(run[r].pending))
    /\ InsertWaits(OtherRun(r), Head(run[OtherRun(r)].pending))
    /\ run' = [run EXCEPT ![r].pc = "failed", ![r].flushed = <<>>,
                          ![r].pending = <<>>]
    /\ UNCHANGED <<poolVars, threadVars, searchVars, db, jobsVars, orchVars, lateVars>>

\* db.commit() with everything INSERTed: the rows become visible
LeadCommit(r) ==
    /\ run[r].pc = "gate"
    /\ run[r].i > Len(run[r].batch)
    /\ run[r].pending = <<>>
    /\ db' = [db EXCEPT !.leads = [v \in Videos |-> @[v] + Count(run[r].flushed, v)]]
    /\ run' = [run EXCEPT ![r].pc = "done", ![r].flushed = <<>>]
    /\ UNCHANGED <<poolVars, threadVars, searchVars, jobsVars, orchVars, lateVars>>

NextLeads ==
    \/ \E r \in Runs : LeadGateStart(r)
    \/ \E r \in Runs : LeadGate(r)
    \/ \E r \in Runs : LeadInsert(r)
    \/ \E r \in Runs : LeadIntegrityError(r)
    \/ \E r \in Runs : LeadDeadlock(r)
    \/ \E r \in Runs : LeadCommit(r)

SpecLeads == InitLeads /\ [][NextLeads]_vars

\* C2: the leads table never holds two Leads for one video_id, however the two
\* runs overlap.
C2_OneLeadPerVideo == \A v \in Videos : db.leads[v] <= 1

\* both runs found no Lead for the same video, both built one, both passes are
\* over and the table holds one
C2_Witness ==
    \E v \in Videos :
        /\ v \notin db.seed
        /\ db.leads[v] = 1
        /\ \A r \in Runs :
              /\ run[r].pc \in {"done", "failed"}
              /\ v \in run[r].saw_none
              /\ Count(run[r].made, v) >= 1

\* the pass of run r is over, ran with no other run about, and its batch held
\* video v twice, v's channel having a contact and v no Lead before
SameVideoTwice(r, v) ==
    /\ run[r].pc \in {"done", "failed"}
    /\ run[OtherRun(r)].pc = "idle"
    /\ Count(run[r].batch, v) >= 2
    /\ db.contact[v] = "email"
    /\ v \notin db.seed

C21_LeadIffContact ==
    /\ \A r \in Runs, v \in Videos :
          (run[r].pc = "done" /\ Count(run[r].batch, v) > 0 /\ v \notin db.seed) =>
              (db.leads[v] > 0 <=>
                  (PrimaryEmail(db.contact[v]) \/ PrimaryInstagram(db.contact[v])))
    /\ \A v \in Videos :
          ~(PrimaryEmail(db.contact[v]) \/ PrimaryInstagram(db.contact[v])) =>
              /\ v \notin db.seed => db.leads[v] = 0
              /\ \A r \in Runs : Count(run[r].made, v) = 0

\* a committed pass over two new videos: the one whose channel has only an
\* Instagram handle got its Lead, the one whose channel has no contact did not
C21_Witness ==
    \E r \in Runs :
        /\ run[r].pc = "done"
        /\ run[r].batch = <<"v1", "v2">>
        /\ db.seed = {}
        /\ db.contact["v1"] = "instagram"
        /\ db.contact["v2"] = "no_contact"
        /\ db.leads["v1"] = 1
        /\ db.leads["v2"] = 0

----------------------------------------------------------------------------
(* The search jobs of one category: _process_category submits them to a
   ThreadPoolExecutor and every job runs search_videos on the one shared
   APIKeyManager.  A pass of the while loop is two steps here, the get_key
   call and the answer to the HTTP request, because the other jobs use the
   pool in between.  Pool calls are atomic: they hold the lock. *)

\* key_manager.get_key() at the head of a pass: None breaks the loop, a key
\* goes into the request for the page after the pages fetched so far
JobGetKey(t) ==
    /\ jobs[t].pc = "loop"
    /\ jobs[t].pages_fetched < MAX_PAGES_PER_JOB
    /\ nCalls < MaxRequests
    /\ nCalls' = nCalls + 1
    /\ km' = GetKeyState(km, today)
    /\ jobs' = [jobs EXCEPT
                  ![t].active_key = GetKeyResult(km, today),
                  ![t].req_page = jobs[t].pages_fetched + 1,
                  ![t].req_reset = GetKeyState(km, today).reset_date,
                  ![t].pc = IF GetKeyResult(km, today) = None
                            THEN "done" ELSE "wait"]
    /\ UNCHANGED <<today, obs, threadVars, searchVars, leadVars, orchVars, lateVars>>

\* the answer the job has just got, as it is remembered in jobs[t].last
Answer(t, status, p) ==
    [status |-> status, page |-> jobs[t].req_page, key |-> jobs[t].active_key,
     reset_date |-> p.reset_date, marked |-> jobs[t].active_key \in p.exhausted]

\* status 200 with items and a nextPageToken: the page is counted
JobPage(t) ==
    /\ jobs[t].pc = "wait"
    /\ jobs' = [jobs EXCEPT ![t].pc = "loop",
                            ![t].pages_fetched = @ + 1,
                            ![t].last = Answer(t, "200", km)]
    /\ UNCHANGED <<poolVars, threadVars, searchVars, leadVars, orchVars, lateVars>>

\* status 200 without a nextPageToken, or with enough results: the job returns
JobLastPage(t) ==
    /\ jobs[t].pc = "wait"
    /\ jobs' = [jobs EXCEPT ![t].pc = "done",
                            ![t].pages_fetched = @ + 1,
                            ![t].last = Answer(t, "200", km)]
    /\ UNCHANGED <<poolVars, threadVars, searchVars, leadVars, orchVars, lateVars>>

\* status 403: key_manager.mark_exhausted(active_key), continue
JobForbidden(t) ==
    /\ jobs[t].pc = "wait"
    /\ km' = MarkExhaustedState(km, jobs[t].active_key)
    /\ jobs' = [jobs EXCEPT ![t].pc = "loop",
                            ![t].last = Answer(t, "403", km')]
    /\ UNCHANGED <<today, obs, nCalls, threadVars, searchVars, leadVars, orchVars, lateVars>>

\* status 429: sleep 15 s, continue
JobRateLimited(t) ==
    /\ jobs[t].pc = "wait"
    /\ jobs' = [jobs EXCEPT ![t].pc = "loop",
                            ![t].last = Answer(t, "429", km)]
    /\ UNCHANGED <<poolVars, threadVars, searchVars, leadVars, orchVars, lateVars>>

\* requests.exceptions.Timeout: sleep 2 s, continue
JobTimeout(t) ==
    /\ jobs[t].pc = "wait"
    /\ jobs' = [jobs EXCEPT ![t].pc = "loop",
                            ![t].last = Answer(t, "timeout", km)]
    /\ UNCHANGED <<poolVars, threadVars, searchVars, leadVars, orchVars, lateVars>>

\* a network error, another status, or no items: break
JobBreak(t) ==
    /\ jobs[t].pc = "wait"
    /\ jobs' = [jobs EXCEPT ![t].pc = "done",
                            ![t].last = Answer(t, "break", km)]
    /\ UNCHANGED <<poolVars, threadVars, searchVars, leadVars, orchVars, lateVars>>

\* midnight passes while the jobs run
JobsMidnight ==
    /\ today < MaxDay
    /\ today' = today + 1
    /\ UNCHANGED <<km, obs, nCalls, threadVars, searchVars, leadVars, jobsVars, orchVars,
                 lateVars>>

InitJobs ==
    /\ today = 0
    /\ km = NewManager(0)
    /\ obs = InitObs
    /\ LateIdle
    /\ nCalls = 0
    /\ ThreadsIdle
    /\ SearchIdle
    /\ LeadsIdle
    /\ OrchIdle
    /\ jobs = [t \in SearchJobs |-> [NoSearchJob EXCEPT !.pc = "loop"]]

NextJobs ==
    \/ \E t \in SearchJobs : JobGetKey(t)
    \/ \E t \in SearchJobs : JobPage(t)
    \/ \E t \in SearchJobs : JobLastPage(t)
    \/ \E t \in SearchJobs : JobForbidden(t)
    \/ \E t \in SearchJobs : JobRateLimited(t)
    \/ \E t \in SearchJobs : JobTimeout(t)
    \/ \E t \in SearchJobs : JobBreak(t)
    \/ JobsMidnight

SpecJobs == InitJobs /\ [][NextJobs]_vars

\* what C11 says of a job whose last answer was a 403 for page p with key k:
\* k was marked, the cursor has not moved, the request that follows is for
\* page p, and the job has stopped only because get_key found no key
AfterForbiddenCommon(t) ==
    /\ jobs[t].last.marked
    /\ jobs[t].pages_fetched + 1 = jobs[t].last.page
    /\ jobs[t].pc = "wait" => jobs[t].req_page = jobs[t].last.page
    /\ jobs[t].pc = "done" => jobs[t].active_key = None

C12_SameKeyAfterRateLimit ==
    \A t \in SearchJobs :
        (jobs[t].last.status = "429" /\ jobs[t].pc = "wait") =>
            /\ jobs[t].req_page = jobs[t].last.page
            /\ jobs[t].active_key = jobs[t].last.key

\* C28: the step in which a job makes its HTTP request (requests.get with the
\* key it holds, up to the answer) never starts with that key in the pool's
\* exhausted set of the current day, whatever the other jobs did to the pool
\* since the job's get_key.
C28_NoRequestWithExhaustedKey ==
    [][\A t \in SearchJobs :
          (jobs[t].pc = "wait" /\ jobs'[t].pc # "wait") =>
              ~(jobs[t].active_key \in km.exhausted /\ km.reset_date = today)]_vars

----------------------------------------------------------------------------
(* The search job left to run as long as the API makes it: the passes that
   `continue` after a timeout or a 429 are taken as the code takes them,
   without any count of the attempts. *)

\* the pool after the get_key of a pass that ends in `continue`.  The usage
\* count, which nothing in the loop reads, is carried no further than
\* MaxRetries by these passes, so that a job retrying for ever is a cycle of
\* states
GetKeyStateRetrying(p, d) ==
    IF GetKeyResult(p, d) # None /\ p.usage[GetKeyResult(p, d)] >= MaxRetries
    THEN [GetKeyState(p, d) EXCEPT !.usage = p.usage]
    ELSE GetKeyState(p, d)

\* requests.exceptions.Timeout: sleep 2 s, continue -- nothing of the job
\* changes; nCalls, kept modulo 2, tells an attempt from the one before it
SearchTimeoutRetry ==
    /\ job.pc = "loop"
    /\ LoopContinues(job)
    /\ ActiveKey # None
    /\ api.mode = "any"
    /\ km' = GetKeyStateRetrying(km, today)
    /\ api' = [api EXCEPT !.keys_used = @ \cup {ActiveKey}, !.last = "timeout"]
    /\ nCalls' = 1 - nCalls
    /\ UNCHANGED <<today, obs, threadVars, job, leadVars, jobsVars, orchVars, lateVars>>

\* status 429: sleep 15 s, continue -- nothing of the job changes
SearchRateLimitedRetry ==
    /\ job.pc = "loop"
    /\ LoopContinues(job)
    /\ ActiveKey # None
    /\ api.mode = "any"
    /\ km' = GetKeyStateRetrying(km, today)
    /\ api' = [api EXCEPT !.keys_used = @ \cup {ActiveKey}, !.last = "429"]
    /\ nCalls' = 1 - nCalls
    /\ UNCHANGED <<today, obs, threadVars, job, leadVars, jobsVars, orchVars, lateVars>>

\* the job as _run_search_job starts it: target_count=RESULTS_PER_JOB
InitSearchFair ==
    /\ InitSearch
    /\ job.target_count = RESULTS_PER_JOB

NextSearchFair ==
    \/ SearchReturn
    \/ SearchNoKey
    \/ SearchTimeoutRetry
    \/ SearchNetworkError
    \/ SearchForbidden
    \/ SearchRateLimitedRetry
    \/ SearchOtherStatus
    \/ SearchMalformed
    \/ SearchEmptyPage
    \/ SearchPage
    \/ RunSearchJobReturn

\* the job's thread keeps running: a pass that can be taken is taken
SpecSearchFair ==
    InitSearchFair /\ [][NextSearchFair]_vars /\ WF_vars(NextSearchFair)

\* C13: the job does not go on retrying after timeouts for ever: from some
\* budget on it aborts, so again and again it is either out of the loop or
\* its last request was not a timeout.
C13_TimeoutBudget == []<>(job.pc # "loop" \/ api.last # "timeout")

\* C14: whatever the API answers, the job eventually leaves its loop (it
\* returns or raises).
C14_JobTerminates == <>(job.pc # "loop")

\* C15: once the job has ended and _process_category has merged what
\* _run_search_job returned, every item the job had accumulated is in all_raw.
C15_PartialResultsKept ==
    job.pc = "merged" => IdsOf(job.results) \subseteq IdsOf(all_raw)

\* the items of a page in the order they came, each video once, items without
\* a videoId dropped
FirstOccurrences(items) ==
    LET firsts == {i \in 1..Len(items) :
                      /\ items[i] # 0
                      /\ \A j \in 1..(i - 1) : items[j] # items[i]}
        nth(n) == CHOOSE i \in firsts : Cardinality({j \in firsts : j <= i}) = n
    IN  [n \in 1..Cardinality(firsts) |-> items[nth(n)]]

\* C16: a job whose first parsed page had no nextPageToken is out of the loop,
\* that page's answer is the last one it got, and its results are the page's
\* items, each video once; and the results of any job hold no video twice.
C16_SinglePageJob ==
    /\ Cardinality(IdsOf(job.results)) = Len(job.results)
    /\ (job.pages_fetched = 1 /\ job.next_page_token = 0) =>
          /\ job.pc # "loop"
          /\ api.ok = 1
          /\ api.last = "200"
          /\ job.results = FirstOccurrences(api.last_page)

\* the first page had the same video twice and no nextPageToken, and the job
\* returned that video once
C16_Witness ==
    /\ job.pc = "done"
    /\ job.pages_fetched = 1
    /\ job.next_page_token = 0
    /\ Len(api.last_page) = 2
    /\ Len(job.results) = 1

----------------------------------------------------------------------------
(* One orchestrator run: run() of main_worker.py looping over the active
   categories, _process_category step by step.  The search jobs, the lead gate
   and the pool are followed in detail by the specifications above; here a
   step is a stage of the pipeline, with the ways it can end. *)

\* a search result: a video and the channel it belongs to
RawItems == {[video_id |-> v, channel_id |-> <<"channel of", v>>] : v \in Videos}

\* the merged results the jobs of a category may bring back
RawResults == UNION {[1..n -> RawItems] : n \in 0..MaxBatch}

\* _deduplicate: the distinct video ids and channel ids of the raw results
Deduplicate(raw_results) ==
    [video_ids |-> {raw_results[n].video_id : n \in 1..Len(raw_results)},
     channel_ids |-> {raw_results[n].channel_id : n \in 1..Len(raw_results)}]

\* a filter that does not look at storage
DedupeExistingIgnoresStorage(stored, results) ==
    [channel_ids |-> {results[n].channel_id : n \in 1..Len(results)},
     video_ids |-> {results[n].video_id : n \in 1..Len(results)}]

\* dedupe_existing: the results whose video is not in youtube_videos, as the
\* pair (channel ids, video ids)
DedupeExisting(stored, results) ==
    LET new_results == SelectSeq(results, LAMBDA r : r.video_id \notin stored)
    IN  [channel_ids |-> {new_results[n].channel_id : n \in 1..Len(new_results)},
         video_ids |-> {new_results[n].video_id : n \in 1..Len(new_results)}]

\* the Session expires every loaded object when it commits or rolls back
ExpireOnCommit == TRUE

\* whether the category objects are expired after a commit or a rollback
AfterCommit(expired) == ExpireOnCommit \/ expired

\* the pool after the search jobs have met m keys that answer 403: each one
\* is handed out by get_key and given to mark_exhausted
RECURSIVE AfterJobs(_, _, _)
AfterJobs(p, d, m) ==
    IF m = 0 \/ GetKeyResult(p, d) = None THEN DailyResetIfNeeded(p, d)
    ELSE AfterJobs(MarkExhaustedState(GetKeyState(p, d), GetKeyResult(p, d)), d, m - 1)

\* an early `return summary` that goes on to step 10 instead
AfterEarlyReturnFallsThrough == "cursor"

\* `return summary` in the middle of the pipeline: steps 4 to 10 are skipped
AfterEarlyReturn == "return"

\* the steps of _process_category before step 10
PipelineStages == {"search", "fetch", "write", "leads"}

InitRun ==
    /\ today = 0
    /\ km = NewManager(0)
    /\ obs = InitObs
    /\ LateIdle
    /\ nCalls = 0
    /\ ThreadsIdle
    /\ SearchIdle
    /\ LeadsIdle
    /\ JobsIdle
    /\ all_raw = <<>>
    /\ dd = NoDedupe
    /\ orch = [NoOrch EXCEPT !.pc = "loop", !.session = "clean"]
    /\ \E stored \in SUBSET Videos :
          store = [videos |-> stored, last_fetched_at |-> [c \in Categories |-> 0]]

\* _process_category is called for the next category: the summary dict is
\* built from cat.name before the try.  An expired object is loaded again
\* through the Session, which raises when the Session's transaction has
\* failed and was not rolled back; run()'s except clause ends the run then
CatStart ==
    /\ orch.pc = "loop"
    /\ orch.i <= NumCats
    /\ IF orch.expired /\ orch.session = "broken"
       THEN orch' = [orch EXCEPT !.pc = "crashed"]
       ELSE orch' = [orch EXCEPT !.pc = "search",
                                 !.stages = {},
                                 !.video_ids = {},
                                 !.summary = [NoSummary EXCEPT !.category = orch.i]]
    /\ UNCHANGED <<poolVars, threadVars, searchVars, leadVars, jobsVars, all_raw, store, dd,
                 lateVars>>

\* steps 1 to 4: the search jobs run (marking the keys that answered 403) and
\* their results are merged; without results the category returns, else the
\* results are deduplicated
CatSearch ==
    /\ orch.pc = "search"
    /\ \E m \in 0..NumKeys, raw \in RawResults :
          /\ km' = AfterJobs(km, today, m)
          /\ all_raw' = raw
          /\ orch' = IF raw = <<>>
                     THEN [orch EXCEPT !.pc = AfterEarlyReturn]
                     ELSE [orch EXCEPT !.pc = "fetch",
                                       !.stages = @ \cup {"search"},
                                       !.video_ids = Deduplicate(raw).video_ids]
    /\ UNCHANGED <<today, obs, nCalls, threadVars, searchVars, leadVars, jobsVars, store, dd,
                 lateVars>>

\* step 5: key_manager.get_key() and the detail fetch of every deduplicated
\* id; without a key, or with no channel fetched, the category returns
CatFetch ==
    /\ orch.pc = "fetch"
    /\ km' = GetKeyState(km, today)
    /\ \E channels_raw_empty \in BOOLEAN :
          orch' = IF GetKeyResult(km, today) = None
                  THEN [orch EXCEPT !.pc = AfterEarlyReturn]
                  ELSE IF channels_raw_empty
                  THEN [orch EXCEPT !.pc = AfterEarlyReturn,
                                    !.summary.errors = @ + 1]
                  ELSE [orch EXCEPT !.pc = "write",
                                    !.stages = @ \cup {"fetch"}]
    /\ UNCHANGED <<today, obs, nCalls, threadVars, searchVars, leadVars, jobsVars, all_raw, store, dd,
                 lateVars>>

\* steps 6 to 8: scrape, transform, bulk_write_all and write_stats, each
\* ending in db.commit()
CatWrite ==
    /\ orch.pc = "write"
    /\ orch.session = "clean"
    /\ store' = [store EXCEPT !.videos = @ \cup orch.video_ids]
    /\ orch' = [orch EXCEPT !.pc = "leads",
                            !.stages = @ \cup {"write"},
                            !.expired = AfterCommit(@)]
    /\ UNCHANGED <<poolVars, threadVars, searchVars, leadVars, jobsVars, all_raw, dd,
                 lateVars>>

\* a lead gate after which the category returns
AfterLeadGateReturns == "return"

\* after the commit of step 9 comes step 10
AfterLeadGate == "cursor"

\* step 9: the lead gate and its db.commit()
CatLeads ==
    /\ orch.pc = "leads"
    /\ orch.session = "clean"
    /\ orch' = [orch EXCEPT !.pc = AfterLeadGate,
                            !.stages = @ \cup {"leads"},
                            !.expired = AfterCommit(@)]
    /\ UNCHANGED <<poolVars, threadVars, searchVars, leadVars, jobsVars, all_raw, store, dd,
                 lateVars>>

\* step 10: cat.last_fetched_at = datetime.utcnow(); db.commit()
CatCursor ==
    /\ orch.pc = "cursor"
    /\ orch.session = "clean"
    /\ store' = [store EXCEPT !.last_fetched_at[orch.i] = 1]
    /\ orch' = [orch EXCEPT !.pc = "return", !.expired = AfterCommit(@)]
    /\ UNCHANGED <<poolVars, threadVars, searchVars, leadVars, jobsVars, all_raw, dd,
                 lateVars>>

\* an exception inside the try: the except clause appends it to the summary's
\* errors and the category returns; the Session is not rolled back.
\*   "plain":  not from the database (a fetch, the scraper, the transform)
\*   "db":     a statement or a flush failed, or the Session's transaction had
\*             failed before: the transaction stays failed.  In the write
\*             steps this may come after bulk_write_all has committed
\*   "commit": db.commit() failed and rolled the transaction back
CatRaise ==
    /\ orch.pc \in PipelineStages \cup {"cursor"}
    /\ \E kind \in {"plain", "db", "commit"}, committed \in BOOLEAN :
          /\ kind = "plain" => orch.pc \in PipelineStages /\ ~committed
          /\ kind = "db" => orch.pc \in {"write", "leads"}
          /\ kind = "commit" => orch.pc \in {"write", "leads", "cursor"} /\ ~committed
          /\ orch.pc \in {"write", "leads", "cursor"} /\ orch.session = "broken"
                => kind = "db" /\ ~committed
          /\ committed => orch.pc = "write"
          /\ store' = IF committed
                      THEN [store EXCEPT !.videos = @ \cup orch.video_ids]
                      ELSE store
          /\ orch' = [orch EXCEPT
                        !.pc = "return",
                        !.summary.errors = @ + 1,
                        !.session = CASE kind = "db" -> "broken"
                                      [] kind = "commit" -> "clean"
                                      [] OTHER -> @,
                        !.expired = IF committed \/ kind = "commit"
                                    THEN AfterCommit(@) ELSE @]
    /\ UNCHANGED <<poolVars, threadVars, searchVars, leadVars, jobsVars, all_raw, dd,
                 lateVars>>

\* back in run(): the locals of _process_category are gone, the summary is
\* appended, key_manager.status()["active"] is read, and with no active key
\* the loop is left
CatReturn ==
    /\ orch.pc = "return"
    /\ km' = StatusState(km, today)
    /\ LET remaining == StatusResult(km, today).active
           summary == [orch.summary EXCEPT !.remaining = remaining]
       IN  orch' = [orch EXCEPT
                      !.all_summaries = Append(@, summary),
                      !.summary = NoSummary,
                      !.stages = {},
                      !.video_ids = {},
                      !.i = IF remaining = 0 THEN @ ELSE @ + 1,
                      !.pc = IF remaining = 0 THEN "ended" ELSE "loop"]
    /\ all_raw' = <<>>
    /\ UNCHANGED <<today, obs, nCalls, threadVars, searchVars, leadVars, jobsVars, store, dd,
                 lateVars>>

\* the for loop has gone through every category
RunEnd ==
    /\ orch.pc = "loop"
    /\ orch.i > NumCats
    /\ orch' = [orch EXCEPT !.pc = "ended"]
    /\ UNCHANGED <<poolVars, threadVars, searchVars, leadVars, jobsVars, all_raw, store, dd,
                 lateVars>>

NextRun ==
    \/ CatStart
    \/ CatSearch
    \/ CatFetch
    \/ CatWrite
    \/ CatLeads
    \/ CatCursor
    \/ CatRaise
    \/ CatReturn
    \/ RunEnd

SpecRun == InitRun /\ [][NextRun]_vars

\* C17: when the run is over, the categories that got a summary are the first
\* n in priority order, every one before the n-th left the pool with an active
\* key, and the run stopped short of the last category only because the pool
\* had no active key after the n-th; an exception in a category shows in its
\* summary and the categories after it are attempted all the same.
C17_PrefixUntilNoKeys ==
    orch.pc \in {"ended", "crashed"} =>
        LET n == Len(orch.all_summaries)
        IN  /\ \A c \in 1..n : orch.all_summaries[c].category = c
            /\ \A c \in 1..(n - 1) : orch.all_summaries[c].remaining > 0
            /\ n < NumCats => (n > 0 /\ orch.all_summaries[n].remaining = 0)

\* C18: a step changes a category's last_fetched_at only when it is the step
\* after the lead gate's commit of that category in this run, with search,
\* detail fetch and persistence completed before, and it records no error.
C18_CursorAfterPipeline ==
    [][\A c \in Categories :
          store'.last_fetched_at[c] # store.last_fetched_at[c] =>
              /\ c = orch.i
              /\ orch.stages = PipelineStages
              /\ orch'.summary.errors = orch.summary.errors]_vars

\* a run is over in which one category went through and had its cursor
\* written and another raised after its videos were stored, its cursor
\* untouched
C18_Witness ==
    /\ orch.pc = "ended"
    /\ store.videos = Videos
    /\ \E c1, c2 \in Categories :
          /\ store.last_fetched_at[c1] = 1
          /\ c2 <= Len(orch.all_summaries)
          /\ orch.all_summaries[c2].errors > 0
          /\ store.last_fetched_at[c2] = 0

\* C26 as stated: a category run that is about to return with an empty errors
\* list has written the category's last_fetched_at.
C26_CursorAfterErrorFreeRun ==
    (orch.pc = "return" /\ orch.summary.errors = 0)
        => store.last_fetched_at[orch.i] = 1

\* C26 amended: a category run that is about to return has written the
\* category's last_fetched_at exactly when it went through every step up to the
\* lead gate's commit and recorded no error; a run that returned early (no
\* search results, no key for the detail fetch) has an empty errors list and
\* has left the cursor as it was.
C26_CursorAfterCompleteRun ==
    orch.pc = "return" =>
        (store.last_fetched_at[orch.i] = 1
            <=> (orch.stages = PipelineStages /\ orch.summary.errors = 0))

\* the second category is about to return, error-free and with its cursor
\* written, after a first category that returned early, error-free too, and
\* whose cursor was left
C26_Witness ==
    /\ orch.pc = "return"
    /\ orch.i = 2
    /\ orch.summary.errors = 0
    /\ orch.stages = PipelineStages
    /\ store.last_fetched_at[2] = 1
    /\ orch.all_summaries[1].errors = 0
    /\ store.last_fetched_at[1] = 0

\* C19: the video ids handed to the detail fetch are not in storage.
C19_OnlyNewItemsFetched ==
    orch.pc = "fetch" => orch.video_ids \cap store.videos = {}

----------------------------------------------------------------------------
(* dedupe_existing of deduplicator.py, called on one merged result set while
   youtube_videos changes or not between the calls. *)

InitDedupe ==
    /\ today = 0
    /\ km = NewManager(0)
    /\ obs = InitObs
    /\ LateIdle
    /\ nCalls = 0
    /\ ThreadsIdle
    /\ SearchIdle
    /\ LeadsIdle
    /\ JobsIdle
    /\ all_raw = <<>>
    /\ orch = NoOrch
    /\ \E stored \in SUBSET Videos :
          store = [videos |-> stored, last_fetched_at |-> [c \in Categories |-> 0]]
    /\ \E results \in RawResults : dd = [NoDedupe EXCEPT !.results = results]

\* dedupe_existing(db, results): what it returns is kept with the rows of
\* youtube_videos it was computed from
DedupeCall ==
    /\ Len(dd.calls) < MaxCalls
    /\ dd' = [dd EXCEPT !.calls =
                 Append(@, [stored |-> store.videos,
                            ret |-> DedupeExisting(store.videos, dd.results)])]
    /\ UNCHANGED <<poolVars, threadVars, searchVars, leadVars, jobsVars, all_raw, orch, store,
                 lateVars>>

\* the videos the last call returned are persisted (bulk_write_all: insert
\* into youtube_videos, on conflict do nothing)
DedupePersist ==
    /\ dd.calls # <<>>
    /\ dd.calls[Len(dd.calls)].ret.video_ids \ store.videos # {}
    /\ store' = [store EXCEPT !.videos = @ \cup dd.calls[Len(dd.calls)].ret.video_ids]
    /\ UNCHANGED <<poolVars, threadVars, searchVars, leadVars, jobsVars, all_raw, orch, dd,
                 lateVars>>

\* another run stores a video
DedupeOtherWrite ==
    /\ \E v \in Videos \ store.videos :
          store' = [store EXCEPT !.videos = @ \cup {v}]
    /\ UNCHANGED <<poolVars, threadVars, searchVars, leadVars, jobsVars, all_raw, orch, dd,
                 lateVars>>

NextDedupe ==
    \/ DedupeCall
    \/ DedupePersist
    \/ DedupeOtherWrite

SpecDedupe == InitDedupe /\ [][NextDedupe]_vars

\* C20: every call returns exactly the video ids of the result set that are
\* not stored; two calls with the same rows stored return the same ids; and a
\* call made when the ids of an earlier call have been persisted returns none
\* of them.
C20_DedupeExisting ==
    \A a \in 1..Len(dd.calls) :
        /\ dd.calls[a].ret.video_ids = Deduplicate(dd.results).video_ids \ dd.calls[a].stored
        /\ \A b \in a..Len(dd.calls) :
              /\ dd.calls[a].stored = dd.calls[b].stored
                    => dd.calls[a].ret = dd.calls[b].ret
              /\ dd.calls[a].ret.video_ids \subseteq dd.calls[b].stored
                    => dd.calls[b].ret.video_ids \cap dd.calls[a].ret.video_ids = {}

\* two calls returned the same new videos, those were persisted, and a third
\* call returned nothing
C20_Witness ==
    /\ Len(dd.calls) >= 3
    /\ dd.calls[1].ret.video_ids # {}
    /\ dd.calls[2].ret = dd.calls[1].ret
    /\ dd.calls[1].ret.video_ids \subseteq dd.calls[3].stored
    /\ dd.calls[3].ret.video_ids = {}
    /\ dd.calls[3].ret.channel_ids = {}

----------------------------------------------------------------------------
(* The two pure helpers of a category run: get_search_jobs of
   search_matrix.py and _get_lookback of main_worker.py.  A call is drawn with
   its arguments and then made. *)

\* the letters category names are written with here, in both cases
Letters == {"m", "M", "g", "G"}

\* the category names a call may be given
Names == UNION {[1..n -> Letters] : n \in 1..MaxName}

\* str.lower()
Lower(name) ==
    [i \in 1..Len(name) |->
        CASE name[i] = "M" -> "m"
          [] name[i] = "G" -> "g"
          [] OTHER -> name[i]]

\* SEARCH_MATRIX in the order of the dict: an entry whose three lists have the
\* lengths dims, and a second entry
SEARCH_MATRIX(dims) ==
    << [key |-> <<"M", "g">>,
        queries |-> [i \in 1..dims[1] |-> <<"query", i>>],
        regions |-> [i \in 1..dims[2] |-> <<"region", i>>],
        languages |-> [i \in 1..dims[3] |-> <<"language", i>>]],
       [key |-> <<"g">>,
        queries |-> << <<"query", 1>>, <<"query", 2>> >>,
        regions |-> << <<"region", 1>> >>,
        languages |-> << <<"language", 1>> >>] >>

\* a lookup by the exact name only
FindConfigExactOnly(matrix, name) ==
    LET exact == {i \in 1..Len(matrix) : matrix[i].key = name}
    IN  IF exact # {} THEN CHOOSE i \in exact : TRUE ELSE 0

\* config = SEARCH_MATRIX.get(category_name), then the first key that equals
\* the name when both are lower-cased: the index of the entry, 0 for none
FindConfig(matrix, name) ==
    LET exact == {i \in 1..Len(matrix) : matrix[i].key = name}
        folded == {i \in 1..Len(matrix) : Lower(matrix[i].key) = Lower(name)}
    IN  IF exact # {} THEN CHOOSE i \in exact : TRUE
        ELSE IF folded # {} THEN CHOOSE i \in folded : \A i2 \in folded : i <= i2
        ELSE 0

\* get_search_jobs: the three nested loops, queries outermost
GetSearchJobs(matrix, name) ==
    LET c == FindConfig(matrix, name)
    IN  IF c = 0 THEN <<>>
        ELSE LET config == matrix[c]
                 R == Len(config.regions)
                 L == Len(config.languages)
             IN  [n \in 1..(Len(config.queries) * R * L) |->
                     [query |-> config.queries[((n - 1) \div (R * L)) + 1],
                      region_code |-> config.regions[(((n - 1) \div L) % R) + 1],
                      language |-> config.languages[((n - 1) % L) + 1],
                      category_name |-> name]]

LOOKBACK_FIRST_RUN_DAYS == 7
LOOKBACK_NORMAL_HOURS == 26
LOOKBACK_STALE_THRESHOLD_HOURS == 48

\* timedelta(hours=h), in ticks of the clock
Hours(h) == h * TicksPerHour

\* a staleness test against the normal window
IsStaleAfterNormalWindow(gap) == gap > Hours(LOOKBACK_NORMAL_HOURS)

\* hours_since > LOOKBACK_STALE_THRESHOLD_HOURS, hours_since being the gap
\* divided by an hour
IsStale(gap) == gap > Hours(LOOKBACK_STALE_THRESHOLD_HOURS)

\* _get_lookback with datetime.utcnow() = now; int(hours_since) drops the
\* fraction of the hour
GetLookback(now, fetched, last) ==
    IF ~fetched
    THEN now - Hours(LOOKBACK_FIRST_RUN_DAYS * 24)
    ELSE IF IsStale(now - last)
    THEN now - Hours(((now - last) \div TicksPerHour) + 24)
    ELSE now - Hours(LOOKBACK_NORMAL_HOURS)

\* a call of one of the two helpers is about to be made: get_search_jobs with
\* any name against a matrix entry of any three lengths, _get_lookback at one
\* of two instants for a category never fetched, or fetched any number of
\* ticks ago up to MaxGapHours (or up to an hour ahead of the clock)
InitPure ==
    /\ today = 0
    /\ km = NewManager(0)
    /\ obs = InitObs
    /\ nCalls = 0
    /\ ThreadsIdle
    /\ SearchIdle
    /\ LeadsIdle
    /\ JobsIdle
    /\ OrchIdle
    /\ fan = NoFan
    /\ proc = NoProc
    /\ \/ \E name \in Names, dims \in [1..3 -> 0..MaxList] :
             fn = [NoCall EXCEPT !.op = "get_search_jobs", !.name = name,
                                 !.dims = dims]
       \/ \E now \in 0..1, gap \in (0 - TicksPerHour)..Hours(MaxGapHours) :
             fn = [NoCall EXCEPT !.op = "_get_lookback", !.now = now,
                                 !.fetched = TRUE, !.last = now - gap]
       \/ \E now \in 0..1 :
             fn = [NoCall EXCEPT !.op = "_get_lookback", !.now = now]

\* jobs = get_search_jobs(cat.name)
CallGetSearchJobs ==
    /\ fn.op = "get_search_jobs"
    /\ ~fn.done
    /\ fn' = [fn EXCEPT !.done = TRUE,
                        !.jobs = GetSearchJobs(SEARCH_MATRIX(fn.dims), fn.name)]
    /\ UNCHANGED <<poolVars, threadVars, searchVars, leadVars, jobsVars, orchVars,
                   fan, proc>>

\* published_after = _get_lookback(cat)
CallGetLookback ==
    /\ fn.op = "_get_lookback"
    /\ ~fn.done
    /\ fn' = [fn EXCEPT !.done = TRUE,
                        !.cutoff = GetLookback(fn.now, fn.fetched, fn.last)]
    /\ UNCHANGED <<poolVars, threadVars, searchVars, leadVars, jobsVars, orchVars,
                   fan, proc>>

NextPure ==
    \/ CallGetSearchJobs
    \/ CallGetLookback

SpecPure == InitPure /\ [][NextPure]_vars

\* the jobs are one for each (query, region, language) of the entry, each
\* tagged with the name the call was given
ExpandsEntry(entry) ==
    /\ Len(fn.jobs) = Len(entry.queries) * Len(entry.regions) * Len(entry.languages)
    /\ \A q \in 1..Len(entry.queries), r \in 1..Len(entry.regions),
          l \in 1..Len(entry.languages) :
          Cardinality({n \in 1..Len(fn.jobs) :
                          /\ fn.jobs[n].query = entry.queries[q]
                          /\ fn.jobs[n].region_code = entry.regions[r]
                          /\ fn.jobs[n].language = entry.languages[l]}) = 1
    /\ \A n \in 1..Len(fn.jobs) : fn.jobs[n].category_name = fn.name

\* C22 as stated: for a name that is a key of the matrix the call returns
\* K*R*L jobs, one per (query, region, language) of that key's lists, each
\* tagged with the name; for a name that is no key of the matrix it returns
\* the empty list.
C22_JobsOrEmpty ==
    (fn.op = "get_search_jobs" /\ fn.done) =>
        LET matrix == SEARCH_MATRIX(fn.dims)
        IN  /\ \A i \in 1..Len(matrix) :
                  matrix[i].key = fn.name => ExpandsEntry(matrix[i])
            /\ (\A i \in 1..Len(matrix) : matrix[i].key # fn.name)
                  => fn.jobs = <<>>

\* C22 amended: the same for a name that is a key; a name that is no key but
\* equals a key when case is ignored gets that key's K*R*L jobs, tagged with
\* the name as it was given; only a name that equals no key even then gets
\* the empty list.
C22_JobsOrEmptyIgnoringCase ==
    (fn.op = "get_search_jobs" /\ fn.done) =>
        LET matrix == SEARCH_MATRIX(fn.dims)
        IN  /\ \A i \in 1..Len(matrix) :
                  Lower(matrix[i].key) = Lower(fn.name) => ExpandsEntry(matrix[i])
            /\ (\A i \in 1..Len(matrix) : Lower(matrix[i].key) # Lower(fn.name))
                  => fn.jobs = <<>>

\* a name written in another case than its key got the 2*2*2 jobs of the key
C22_Witness ==
    /\ fn.op = "get_search_jobs"
    /\ fn.done
    /\ fn.name = <<"m", "G">>
    /\ fn.dims = <<2, 2, 2>>
    /\ Len(fn.jobs) = 8
    /\ fn.jobs[8].category_name = <<"m", "G">>

\* C23 as stated: the cutoff is now - 7 days for a category never fetched,
\* now - (gap + 24 hours) when the gap since last_fetched_at exceeds 48 hours,
\* and now - 26 hours otherwise.
C23_LookbackWindows ==
    (fn.op = "_get_lookback" /\ fn.done) =>
        /\ ~fn.fetched => fn.cutoff = fn.now - Hours(7 * 24)
        /\ (fn.fetched /\ fn.now - fn.last > Hours(48))
              => fn.cutoff = fn.now - ((fn.now - fn.last) + Hours(24))
        /\ (fn.fetched /\ fn.now - fn.last <= Hours(48))
              => fn.cutoff = fn.now - Hours(26)

\* C23 amended: the same, the gap counting in whole hours only: beyond 48
\* hours the cutoff is now - (h + 24) hours, h being the number of full hours
\* since last_fetched_at.
C23_LookbackWindowsWholeHours ==
    (fn.op = "_get_lookback" /\ fn.done) =>
        /\ ~fn.fetched => fn.cutoff = fn.now - Hours(7 * 24)
        /\ (fn.fetched /\ fn.now - fn.last > Hours(48)) =>
              \E h \in 48..MaxGapHours :
                  /\ Hours(h) <= fn.now - fn.last
                  /\ fn.now - fn.last < Hours(h + 1)
                  /\ fn.cutoff = fn.now - Hours(h + 24)
        /\ (fn.fetched /\ fn.now - fn.last <= Hours(48))
              => fn.cutoff = fn.now - Hours(26)

\* a category fetched 50 hours and a fraction ago got the cutoff now - 74 hours
C23_Witness ==
    /\ fn.op = "_get_lookback"
    /\ fn.done
    /\ fn.fetched
    /\ fn.now - fn.last = Hours(50) + 1
    /\ fn.cutoff = fn.now - Hours(74)

\* C29: the cutoff is never later than the category's last_fetched_at.
C29_WindowCoversGap ==
    (fn.op = "_get_lookback" /\ fn.done /\ fn.fetched) => fn.cutoff <= fn.last

----------------------------------------------------------------------------
(* The fan-out of one category: step 3 of _process_category.  Every job is
   submitted to the ThreadPoolExecutor as _run_search_job; the main thread
   takes the futures from as_completed and extends all_raw with what each
   holds.  The `except` of that loop is not a step here: future.result()
   raises only what _run_search_job lets through, and its own `except
   Exception` lets nothing through. *)

\* a _run_search_job that returns nothing
RunSearchJobDropsResults(outcome, results) == <<>>

\* _run_search_job: what search_videos returned, [] when it raised
RunSearchJobResult(outcome, results) ==
    IF outcome = "raised" THEN <<>> ELSE results

\* the jobs are submitted
InitFan ==
    /\ today = 0
    /\ km = NewManager(0)
    /\ obs = InitObs
    /\ nCalls = 0
    /\ ThreadsIdle
    /\ SearchIdle
    /\ LeadsIdle
    /\ JobsIdle
    /\ OrchIdle
    /\ fn = NoCall
    /\ proc = NoProc
    /\ fan = [NoFan EXCEPT !.pc = "fanout"]

\* search_videos returns in job t, and _run_search_job returns its results
FanJobReturns(t) ==
    /\ fan.pc = "fanout"
    /\ fan.outcome[t] = "none"
    /\ \E results \in RawResults :
          fan' = [fan EXCEPT
                    !.outcome[t] = "returned",
                    !.results[t] = results,
                    !.batch[t] = RunSearchJobResult("returned", results),
                    !.completed = Append(@, t)]
    /\ UNCHANGED <<poolVars, threadVars, searchVars, leadVars, jobsVars, orchVars,
                   fn, proc>>

\* search_videos raises in job t: the except clause of _run_search_job prints
\* the exception and returns []
FanJobRaises(t) ==
    /\ fan.pc = "fanout"
    /\ fan.outcome[t] = "none"
    /\ fan' = [fan EXCEPT
                 !.outcome[t] = "raised",
                 !.batch[t] = RunSearchJobResult("raised", <<>>),
                 !.completed = Append(@, t)]
    /\ UNCHANGED <<poolVars, threadVars, searchVars, leadVars, jobsVars, orchVars,
                   fn, proc>>

\* one pass of `for future in as_completed(futures)`: batch = future.result();
\* all_raw.extend(batch)
FanMerge ==
    /\ fan.pc = "fanout"
    /\ fan.merged < Len(fan.completed)
    /\ all_raw' = all_raw \o fan.batch[fan.completed[fan.merged + 1]]
    /\ fan' = [fan EXCEPT !.merged = @ + 1]
    /\ UNCHANGED <<poolVars, threadVars, searchVars, leadVars, jobsVars,
                   orch, store, dd, fn, proc>>

\* every future has been taken: `if not all_raw: return summary`, else the
\* category goes on to step 4
FanDone ==
    /\ fan.pc = "fanout"
    /\ fan.merged = Cardinality(SearchJobs)
    /\ fan' = [fan EXCEPT !.pc = IF all_raw = <<>> THEN AfterEarlyReturn
                                 ELSE "dedupe"]
    /\ UNCHANGED <<poolVars, threadVars, searchVars, leadVars, jobsVars, orchVars,
                   fn, proc>>

NextFan ==
    \/ \E t \in SearchJobs : FanJobReturns(t)
    \/ \E t \in SearchJobs : FanJobRaises(t)
    \/ FanMerge
    \/ FanDone

SpecFan == InitFan /\ [][NextFan]_vars

\* what the jobs that completed first, second, ... up to the n-th had to
\* return, one after the other
RECURSIVE ResultsInOrder(_)
ResultsInOrder(n) ==
    IF n = 0 THEN <<>>
    ELSE ResultsInOrder(n - 1) \o fan.results[fan.completed[n]]

\* C24: when the fan-out is over every job has run to its end, whether or not
\* another one raised; all_raw holds what every job that did not raise had to
\* return, in the order the jobs completed; and the category goes on to the
\* deduplication with them (it returns only when there is nothing at all).
C24_SiblingsUnaffected ==
    fan.pc \notin {"none", "fanout"} =>
        /\ \A t \in SearchJobs : fan.outcome[t] \in {"returned", "raised"}
        /\ all_raw = ResultsInOrder(Len(fan.completed))
        /\ fan.pc = "dedupe" <=> all_raw # <<>>

\* job_a raised first, job_b then returned two results, and the category goes
\* on with the two
C24_Witness ==
    /\ fan.pc = "dedupe"
    /\ fan.completed = <<"job_a", "job_b">>
    /\ fan.outcome["job_a"] = "raised"
    /\ fan.outcome["job_b"] = "returned"
    /\ Len(fan.results["job_b"]) = 2
    /\ all_raw = fan.results["job_b"]

\* C25: when the fan-out is over, the summary's errors list has an entry for
\* every job that raised.
C25_JobErrorsRecorded ==
    fan.pc \notin {"none", "fanout"} =>
        fan.errors >= Cardinality({t \in SearchJobs : fan.outcome[t] = "raised"})

----------------------------------------------------------------------------
(* The process over its orchestrator runs: every call of run() (the hourly
   job of scheduler.py, POST /run/youtube) builds its own APIKeyManager from
   the environment and uses it for its categories.  The pool is written out
   again here for whatever key list _load_keys returns. *)

\* str.strip() on the values the environment may hold
Strip(v) == IF v = "k1 " THEN "k1" ELSE v

\* the environment: YOUTUBE_API_KEY_1..n as set (n up to MaxEnv), and
\* YOUTUBE_API_KEY and EMERGENCY_BACKUP_KEY, "" when unset
Environments ==
    {[numbered |-> nb, legacy |-> lg] :
        nb \in UNION {[1..n -> {"k1", "k1 ", "k2"}] : n \in 0..MaxEnv},
        lg \in [1..2 -> {"", "k1", "k3"}]}

\* _load_keys: the numbered keys as they come, then each legacy key that is
\* set and not in the list yet
LoadKeys(env) ==
    LET numbered == [i \in 1..Len(env.numbered) |-> Strip(env.numbered[i])]
        AddLegacy(ks, val) ==
            IF val # "" /\ \A i \in 1..Len(ks) : ks[i] # val
            THEN Append(ks, val) ELSE ks
    IN  AddLegacy(AddLegacy(numbered, Strip(env.legacy[1])), Strip(env.legacy[2]))

\* APIKeyManager.__init__ with self._keys = ks, on day d
NewManagerOn(ks, d) ==
    [exhausted |-> {},
     usage |-> [k \in {ks[i] : i \in 1..Len(ks)} |-> 0],
     current_index |-> 0,
     reset_date |-> d]

\* _daily_reset_if_needed
DailyResetOn(ks, p, d) ==
    IF d # p.reset_date
    THEN [p EXCEPT !.exhausted = {},
                   !.usage = [k \in {ks[i] : i \in 1..Len(ks)} |-> 0],
                   !.reset_date = d]
    ELSE p

\* get_key: the value returned and the manager afterwards
GetKeyOn(ks, p, d) ==
    LET q == DailyResetOn(ks, p, d)
        n == Len(ks)
        start == q.current_index % n
        hits == {o \in 0..(n - 1) : ks[((start + o) % n) + 1] \notin q.exhausted}
    IN  IF hits = {} THEN [ret |-> None, p |-> q]
        ELSE LET idx == (start + (CHOOSE o \in hits : \A o2 \in hits : o <= o2)) % n
             IN  [ret |-> ks[idx + 1],
                  p |-> [q EXCEPT !.current_index = idx,
                                  !.usage[ks[idx + 1]] = @ + 1]]

\* status()["active"]
StatusActiveOn(ks, p, d) ==
    Len(ks) - Cardinality(DailyResetOn(ks, p, d).exhausted)

\* the process is up with some environment, no run made yet.  keys: the list
\* of the current run's pool; earlier: the keys marked exhausted today by the
\* runs before the current one; marked: those marked today by the current run
InitProc ==
    /\ today = 0
    /\ km = NewManager(0)
    /\ obs = InitObs
    /\ nCalls = 0
    /\ ThreadsIdle
    /\ SearchIdle
    /\ LeadsIdle
    /\ JobsIdle
    /\ OrchIdle
    /\ fn = NoCall
    /\ fan = NoFan
    /\ \E env \in Environments :
          proc = [pc |-> "idle", env |-> env, keys |-> <<>>, runs |-> 0,
                  op |-> "none", ret |-> None, active |-> 0,
                  earlier |-> {}, marked |-> {}]

\* run() is called, the run before it being over: key_manager =
\* APIKeyManager(), which raises EnvironmentError when no key is set, and
\* key_manager.status()
ProcRun ==
    /\ proc.pc \in {"idle", "running"}
    /\ proc.runs < MaxRuns
    /\ LET ks == LoadKeys(proc.env)
       IN  IF ks = <<>>
           THEN /\ proc' = [proc EXCEPT !.pc = "failed", !.runs = @ + 1]
                /\ UNCHANGED km
           ELSE /\ km' = NewManagerOn(ks, today)
                /\ proc' = [proc EXCEPT
                              !.pc = "running", !.runs = @ + 1, !.keys = ks,
                              !.op = "status", !.ret = None,
                              !.active = StatusActiveOn(ks, NewManagerOn(ks, today), today),
                              !.earlier = @ \cup proc.marked,
                              !.marked = {}]
    /\ nCalls' = 0
    /\ UNCHANGED <<today, obs, threadVars, searchVars, leadVars, jobsVars, orchVars,
                   fn, fan>>

\* a get_key call of the run (a search job's, or the one before the fetch)
ProcGetKey ==
    /\ proc.pc = "running"
    /\ nCalls < MaxCalls
    /\ nCalls' = nCalls + 1
    /\ km' = GetKeyOn(proc.keys, km, today).p
    /\ proc' = [proc EXCEPT !.op = "get_key",
                            !.ret = GetKeyOn(proc.keys, km, today).ret]
    /\ UNCHANGED <<today, obs, threadVars, searchVars, leadVars, jobsVars, orchVars,
                   fn, fan>>

\* a search job got a 403 with the key it was given last:
\* key_manager.mark_exhausted(active_key)
ProcMarkExhausted ==
    /\ proc.pc = "running"
    /\ proc.ret # None
    /\ nCalls < MaxCalls
    /\ nCalls' = nCalls + 1
    /\ km' = [km EXCEPT !.exhausted = @ \cup {proc.ret}]
    /\ proc' = [proc EXCEPT !.op = "mark_exhausted",
                            !.marked = @ \cup {proc.ret}]
    /\ UNCHANGED <<today, obs, threadVars, searchVars, leadVars, jobsVars, orchVars,
                   fn, fan>>

\* remaining = key_manager.status()["active"] after a category
ProcStatus ==
    /\ proc.pc = "running"
    /\ nCalls < MaxCalls
    /\ nCalls' = nCalls + 1
    /\ km' = DailyResetOn(proc.keys, km, today)
    /\ proc' = [proc EXCEPT !.op = "status",
                            !.active = StatusActiveOn(proc.keys, km, today)]
    /\ UNCHANGED <<today, obs, threadVars, searchVars, leadVars, jobsVars, orchVars,
                   fn, fan>>

\* midnight passes
ProcMidnight ==
    /\ today < MaxDay
    /\ today' = today + 1
    /\ proc' = [proc EXCEPT !.op = "midnight", !.earlier = {}, !.marked = {}]
    /\ UNCHANGED <<km, obs, nCalls, threadVars, searchVars, leadVars, jobsVars, orchVars,
                   fn, fan>>

NextProc ==
    \/ ProcRun
    \/ ProcGetKey
    \/ ProcMarkExhausted
    \/ ProcStatus
    \/ ProcMidnight

SpecProc == InitProc /\ [][NextProc]_vars

\* C27: a get_key call of a run never returns a key that an earlier run of
\* the process marked exhausted on the same day.
C27_ExhaustionOutlivesRun ==
    (proc.pc = "running" /\ proc.op = "get_key" /\ proc.ret # None)
        => proc.ret \notin proc.earlier

\* C30: what status() has just reported as active is the number of keys of the
\* list that are not exhausted, and it is 0 exactly when a get_key call made
\* now would return None.
C30_ActiveCountsAcquirableKeys ==
    (proc.pc = "running" /\ proc.op = "status") =>
        /\ proc.active = Len(SelectSeq(proc.keys, LAMBDA k : k \notin km.exhausted))
        /\ proc.active = 0 <=> GetKeyOn(proc.keys, km, today).ret = None

====
